---- MODULE Spec2Model ----
(***************************************************************************)
(* ThemisAI: the cache-first retrieve-then-generate coordinator            *)
(* (app/domain/analysis_domain.py, AnalysisDomain.perform_analysis) with   *)
(* its collaborators: the cache (get/set with expiration), the retriever   *)
(* (search_vector) and the generator (generate_response_async).            *)
(*                                                                         *)
(* Every perform_analysis call is a coroutine; its suspension points are   *)
(* the four awaits (cache.get, search_vector, generate_response_async,     *)
(* cache.set).  One action models the completion of an awaited call        *)
(* together with the synchronous code that runs until the next await.      *)
(***************************************************************************)
EXTENDS Naturals, Integers, Sequences, FiniteSets, TLC

(***************************************************************************)
(* Bounds of the model.                                                    *)
(***************************************************************************)
\* number of perform_analysis calls in one behaviour
MaxCalls == 2

Calls == 1..MaxCalls

(***************************************************************************)
(* Program constants.                                                      *)
(***************************************************************************)
\* analysis_domain.py:103
TTL_SECONDS == 3600
\* analysis_domain.py:112, json_response_str[:200]
EXCERPT_LEN == 200

(***************************************************************************)
(* Requests (AndroguardAnalysis) and the cache key.                        *)
(***************************************************************************)
PackageNames == {"com.example.app"}
PermissionLists == {<< >>, <<"INTERNET">>}
DalvikLogs == {"suspicious call to sendSms"}

\* models/app_analysis.py: AndroguardAnalysis
AndroguardAnalysis ==
    [package_name : PackageNames,
     permissions_list : PermissionLists,
     dalvik_analysis_log : DalvikLogs]

\* req.model_dump_json(): the fields in declaration order, each with its value
model_dump_json(r) ==
    << <<"package_name", <<r.package_name>> >>,
       <<"permissions_list", r.permissions_list>>,
       <<"dalvik_analysis_log", <<r.dalvik_analysis_log>> >> >>

\* hashlib.sha256(...).hexdigest(): idealised as collision-free, the digest
\* stands for the string it was computed from
sha256_hexdigest(s) == <<"sha256", s>>

\* f"themisai:analysis:{input_hash}"
cache_key(r) == <<"themisai", "analysis", sha256_hexdigest(model_dump_json(r))>>

Keys == {cache_key(r) : r \in AndroguardAnalysis}

(***************************************************************************)
(* Texts: what the generator prints and what the cache stores.  A text is  *)
(* its length, the number of surrounding whitespace characters, whether it *)
(* is well-formed JSON (one object), and the members of that object.       *)
(***************************************************************************)
\* models/app_analysis.py: ThemisAIReport, the declared type of each field
FieldType ==
    [package_name |-> "str", score |-> "num", summary |-> "str",
     vulnerability_name |-> "str", severity_level |-> "str",
     mitigation_actions |-> "list"]

RequiredFields == DOMAIN FieldType

Member(f, t, v) == <<f, <<t, v>> >>

FullMembers(sev) ==
    {Member("package_name", "str", "com.example.app"),
     Member("score", "num", "7.5"),
     Member("summary", "str", "risk"),
     Member("vulnerability_name", "str", "SMS abuse"),
     Member("severity_level", "str", sev),
     Member("mitigation_actions", "list", "TLS")}

Text(n, w, v, m) == [len |-> n, ws |-> w, valid |-> v, members |-> m]

EmptyText == Text(0, 0, FALSE, {})
\* only blanks and newlines
BlankStdout == Text(2, 2, FALSE, {})
\* prose or a fenced block, longer than the excerpt
ProseText == Text(350, 0, FALSE, {})
HighReport == Text(150, 0, TRUE, FullMembers("High"))
LowReport == Text(150, 0, TRUE, FullMembers("Low"))
\* the report followed by a newline, as a process prints it
HighReportNl == Text(151, 1, TRUE, FullMembers("High"))
\* the report of the unit test: one field more than the model declares
ExtraReport ==
    Text(180, 0, TRUE, FullMembers("High") \cup {Member("findings", "list", "HIGH")})
MissingReport(f) ==
    Text(120, 0, TRUE, {m \in FullMembers("High") : m[1] # f})
\* every field present, score is not a number
WrongTypeReport ==
    Text(150, 0, TRUE,
         {m \in FullMembers("High") : m[1] # "score"}
            \cup {Member("score", "list", "7.5")})

\* what the child process may write to standard output
Stdouts ==
    {EmptyText, BlankStdout, ProseText, HighReport, LowReport, HighReportNl,
     ExtraReport, WrongTypeReport}
        \cup {MissingReport(f) : f \in RequiredFields}

\* llama_service.py:208, stdout.strip()
strip(t) == [t EXCEPT !.len = t.len - t.ws, !.ws = 0]

\* retriever results (mitre_chunks)
ChunkLists == {<< >>, <<"MITRE T1.1: SMS abuse pattern">>}

(***************************************************************************)
(* Deserialisation of a report (pydantic, ThemisAIReport).                 *)
(***************************************************************************)
HasField(t, f) == \E m \in t.members : m[1] = f /\ m[2][1] = FieldType[f]

\* variant: the fields are optional, a text that omits some still yields a report
model_validate_json_partial(t) ==
    IF t.valid
    THEN [ok |-> TRUE,
          report |-> {m \in t.members : m[1] \in RequiredFields},
          exc |-> "none"]
    ELSE [ok |-> FALSE, report |-> {}, exc |-> "ValidationError"]

\* variant: undeclared members are rejected (extra = "forbid")
model_validate_json_forbid_extra(t) ==
    IF /\ t.valid
       /\ \A f \in RequiredFields : HasField(t, f)
       /\ \A m \in t.members : m[1] \in RequiredFields
    THEN [ok |-> TRUE, report |-> t.members, exc |-> "none"]
    ELSE [ok |-> FALSE, report |-> {}, exc |-> "ValidationError"]

\* ThemisAIReport.model_validate_json(text): every declared field is required,
\* undeclared members are ignored; any failure, a JSON syntax error included,
\* is raised as pydantic's ValidationError
model_validate_json(t) ==
    IF t.valid /\ \A f \in RequiredFields : HasField(t, f)
    THEN [ok |-> TRUE,
          report |-> {m \in t.members : m[1] \in RequiredFields},
          exc |-> "none"]
    ELSE [ok |-> FALSE, report |-> {}, exc |-> "ValidationError"]

Min(a, b) == IF a <= b THEN a ELSE b

NoError == [type |-> "none", excerpt |-> 0]
Raised(type) == [type |-> type, excerpt |-> 0]
\* analysis_domain.py:112, the ValueError with json_response_str[:200]
InvalidJsonError(t) == [type |-> "ValueError", excerpt |-> Min(t.len, EXCERPT_LEN)]

\* analysis_domain.py:107-112: try model_validate_json, except
\* json.JSONDecodeError raise the ValueError; anything else propagates
ParseOrRaise(t) ==
    LET r == model_validate_json(t) IN
    IF r.ok THEN [ok |-> TRUE, report |-> r.report, error |-> NoError]
    ELSE IF r.exc = "JSONDecodeError"
         THEN [ok |-> FALSE, report |-> {}, error |-> InvalidJsonError(t)]
         ELSE [ok |-> FALSE, report |-> {}, error |-> Raised(r.exc)]

(***************************************************************************)
(* Prompt engineering.                                                     *)
(***************************************************************************)
\* analysis_domain.py:72-78
specific_context(r) == <<"Pacote", r.package_name, model_dump_json(r)>>

\* analysis_domain.py:118-139: the JSON-only instruction and the schema
get_system_prompt == <<"JSON-only", RequiredFields>>

\* analysis_domain.py:141-173: system prompt, chunks, application context,
\* closing instruction, in this order
format_final_prompt(system_prompt, app_context, mitre_context) ==
    <<system_prompt, mitre_context, app_context, "TAREFA FINAL">>

(***************************************************************************)
(* The cache service: get(key) -> string | absent, set(key, value, ex).    *)
(***************************************************************************)
Absent == [present |-> FALSE, value |-> EmptyText, ex |-> 0, by |-> 0]

\* the entry that set stores; by is the call that wrote it (history only)
Entry(v, ex, c) == [present |-> TRUE, value |-> v, ex |-> ex, by |-> c]

CacheGet(store, k) == store[k]

CacheSet(store, k, v, ex, c) == [store EXCEPT ![k] = Entry(v, ex, c)]

\* Python truth value of what cache.get returned: None and "" are false
Truthy(e) == e.present /\ e.value.len # 0

(***************************************************************************)
(* State.                                                                  *)
(***************************************************************************)
VARIABLES
    cache,   \* the cache service's store: key -> entry
    call,    \* the perform_analysis calls: position, local variables and the
             \* trace of collaborator calls made so far
    index,   \* the search engine: the named index and its documents
    worker,  \* the callers of OpenSearchService: position, arguments, outcome
    fusion,  \* one search_hybrid_slim call: the two hit lists and its result
    gen,     \* one LlamaService generation call and its child process
    llama,   \* one construction of LlamaService: the file system and the result
    http     \* the requests to POST /app-analysis and their responses

vars == <<cache, call, index, worker, fusion, gen, llama, http>>

\* Each specification exercises one component; the variables of the other
\* components keep the value Apart throughout.
Apart == "apart"

coordinator_apart == cache = Apart /\ call = Apart
search_apart == index = Apart /\ worker = Apart
fusion_apart == fusion = Apart
gen_apart == gen = Apart
llama_apart == llama = Apart
http_apart == http = Apart

beside_coordinator == <<index, worker, fusion, gen, llama, http>>
beside_search == <<cache, call, fusion, gen, llama, http>>
beside_fusion == <<cache, call, index, worker, gen, llama, http>>
beside_gen == <<cache, call, index, worker, fusion, llama, http>>
beside_llama == <<cache, call, index, worker, fusion, gen, http>>
beside_http == <<cache, call, index, worker, fusion, gen, llama>>

NoRequest == [package_name |-> "", permissions_list |-> << >>, dalvik_analysis_log |-> ""]

IdleCall ==
    [pc |-> "idle",
     req |-> NoRequest,
     cache_key |-> << >>,
     cached_report |-> Absent,
     mitre_chunks |-> << >>,
     final_prompt |-> << >>,
     json_response_str |-> EmptyText,
     report |-> {},
     error |-> NoError,
     trace |-> << >>]

Finished(c) == call[c].pc \in {"returned", "failed"}

Init ==
    /\ cache = [k \in Keys |-> Absent]
    /\ call = [c \in Calls |-> IdleCall]
    /\ search_apart /\ fusion_apart /\ gen_apart /\ llama_apart /\ http_apart

(***************************************************************************)
(* perform_analysis, one action per resumption of the coroutine.           *)
(***************************************************************************)
\* the end of a call: the coroutine's frame with its local variables is
\* gone; what is left is the outcome (the caller keeps the request)
Ended(c, pc, report, error, events) ==
    [IdleCall EXCEPT
        !.pc = pc,
        !.req = call[c].req,
        !.report = report,
        !.error = error,
        !.trace = call[c].trace \o events]

\* return ThemisAIReport.model_validate_json(text), or raise
Conclude(c, text, events) ==
    LET p == ParseOrRaise(text) IN
    Ended(c, IF p.ok THEN "returned" ELSE "failed", p.report, p.error, events)

\* variant: the retrieval is started together with the cache read
Start_prefetch(c, r) ==
    /\ call[c].pc = "idle"
    /\ \A d \in Calls : d < c => call[d].pc # "idle"
    /\ call' = [call EXCEPT ![c] =
                  [@ EXCEPT !.pc = "await_get",
                            !.req = r,
                            !.cache_key = cache_key(r),
                            !.trace = <<"cache.get", "search_vector">>]]
    /\ UNCHANGED cache
    /\ UNCHANGED beside_coordinator

\* analysis_domain.py:54-58: derive the key and await cache.get(cache_key).
\* Calls are numbered in the order they are made.
Start(c, r) ==
    /\ call[c].pc = "idle"
    /\ \A d \in Calls : d < c => call[d].pc # "idle"
    /\ call' = [call EXCEPT ![c] =
                  [@ EXCEPT !.pc = "await_get",
                            !.req = r,
                            !.cache_key = cache_key(r),
                            !.trace = <<"cache.get">>]]
    /\ UNCHANGED cache
    /\ UNCHANGED beside_coordinator

\* variant: the cached value is not looked at, every call takes the miss path
CacheGetReturns_nocache(c) ==
    /\ call[c].pc = "await_get"
    /\ call' = [call EXCEPT ![c] =
                  [@ EXCEPT !.pc = "await_search",
                            !.cached_report = CacheGet(cache, call[c].cache_key),
                            !.trace = @ \o <<"cache.get.ret", "search_vector">>]]
    /\ UNCHANGED cache
    /\ UNCHANGED beside_coordinator

\* analysis_domain.py:58-81: cache.get returns; on a true value parse it and
\* return, otherwise build the context and await retriever.search_vector
CacheGetReturns(c) ==
    /\ call[c].pc = "await_get"
    /\ LET cached_report == CacheGet(cache, call[c].cache_key) IN
       IF Truthy(cached_report)
       THEN call' = [call EXCEPT ![c] =
                Conclude(c, cached_report.value, <<"cache.get.ret", "parse">>)]
       ELSE call' = [call EXCEPT ![c] =
                [@ EXCEPT !.pc = "await_search",
                          !.cached_report = cached_report,
                          !.trace = @ \o <<"cache.get.ret", "search_vector">>]]
    /\ UNCHANGED cache
    /\ UNCHANGED beside_coordinator

\* analysis_domain.py:81-95: the chunks arrive; build the prompt and await
\* generator.generate_response_async(prompt, max_tokens=512)
SearchReturns(c, chunks) ==
    /\ call[c].pc = "await_search"
    /\ call' = [call EXCEPT ![c] =
                  [@ EXCEPT !.pc = "await_generate",
                            !.mitre_chunks = chunks,
                            !.final_prompt =
                                format_final_prompt(get_system_prompt,
                                    specific_context(call[c].req), chunks),
                            !.trace = @ \o <<"search_vector.ret", "generate">>]]
    /\ UNCHANGED cache
    /\ UNCHANGED beside_coordinator

\* llama_service.py:199-208 and analysis_domain.py:92-104: the child exits
\* with code 0, its trimmed output is json_response_str; await
\* cache.set(cache_key, json_response_str, ex=TTL_SECONDS).  The chunks and
\* the prompt are not read again and are dropped from the state here.
GenerateReturns(c, stdout) ==
    /\ call[c].pc = "await_generate"
    /\ call' = [call EXCEPT ![c] =
                  [@ EXCEPT !.pc = "await_set",
                            !.json_response_str = strip(stdout),
                            !.mitre_chunks = << >>,
                            !.final_prompt = << >>,
                            !.trace = @ \o <<"generate.ret", "cache.set">>]]
    /\ UNCHANGED cache
    /\ UNCHANGED beside_coordinator

\* variant: the output is validated first and cached only when it parses
CacheSetReturns_validated(c) ==
    /\ call[c].pc = "await_set"
    /\ cache' = IF model_validate_json(call[c].json_response_str).ok
                THEN CacheSet(cache, call[c].cache_key, call[c].json_response_str,
                              TTL_SECONDS, c)
                ELSE cache
    /\ call' = [call EXCEPT ![c] =
                  Conclude(c, call[c].json_response_str, <<"cache.set.ret", "parse">>)]
    /\ UNCHANGED beside_coordinator

\* variant: the write does not replace an entry that is already there (NX)
CacheSetReturns_ifabsent(c) ==
    /\ call[c].pc = "await_set"
    /\ cache' = IF cache[call[c].cache_key].present
                THEN cache
                ELSE CacheSet(cache, call[c].cache_key, call[c].json_response_str,
                              TTL_SECONDS, c)
    /\ call' = [call EXCEPT ![c] =
                  Conclude(c, call[c].json_response_str, <<"cache.set.ret", "parse">>)]
    /\ UNCHANGED beside_coordinator

\* variant: the raw output is parsed first and the report is serialised
\* again for the cache, which drops the undeclared members
CacheSetReturns_reserialized(c) ==
    /\ call[c].pc = "await_set"
    /\ cache' = CacheSet(cache, call[c].cache_key,
                         [call[c].json_response_str EXCEPT
                             !.members = {m \in @ : m[1] \in RequiredFields}],
                         TTL_SECONDS, c)
    /\ call' = [call EXCEPT ![c] =
                  Conclude(c, call[c].json_response_str, <<"cache.set.ret", "parse">>)]
    /\ UNCHANGED beside_coordinator

\* analysis_domain.py:104-112: the cache stores the entry and acknowledges;
\* parse the raw output and return the report or raise
CacheSetReturns(c) ==
    /\ call[c].pc = "await_set"
    /\ cache' = CacheSet(cache, call[c].cache_key, call[c].json_response_str,
                         TTL_SECONDS, c)
    /\ call' = [call EXCEPT ![c] =
                  Conclude(c, call[c].json_response_str, <<"cache.set.ret", "parse">>)]
    /\ UNCHANGED beside_coordinator

\* variant: a failure drops the cached entry of the request
Propagate_evict(c, at, type, event) ==
    /\ call[c].pc = at
    /\ call' = [call EXCEPT ![c] = Ended(c, "failed", {}, Raised(type), <<event>>)]
    /\ cache' = [cache EXCEPT ![call[c].cache_key] = Absent]
    /\ UNCHANGED beside_coordinator

\* an awaited collaborator raises: nothing in perform_analysis catches it
Propagate(c, at, type, event) ==
    /\ call[c].pc = at
    /\ call' = [call EXCEPT ![c] = Ended(c, "failed", {}, Raised(type), <<event>>)]
    /\ UNCHANGED cache
    /\ UNCHANGED beside_coordinator

\* analysis_domain.py:58, cache.get raises (cache unreachable)
CacheGetFails(c) == Propagate(c, "await_get", "ConnectionError", "cache.get.raise")

\* analysis_domain.py:81, search_vector raises
SearchFails(c) == Propagate(c, "await_search", "SearchError", "search_vector.raise")

\* llama_service.py:201-206 and 221-224: non-zero exit or timeout
GenerateFails(c) == Propagate(c, "await_generate", "RuntimeError", "generate.raise")

\* analysis_domain.py:104, cache.set raises before storing
CacheSetFails(c) == Propagate(c, "await_set", "ConnectionError", "cache.set.raise")

\* the cache service drops an entry whose expiration has passed
Expire(k) ==
    /\ cache[k].present
    /\ cache' = [cache EXCEPT ![k] = Absent]
    /\ UNCHANGED call
    /\ UNCHANGED beside_coordinator

Next ==
    \/ \E c \in Calls, r \in AndroguardAnalysis : Start(c, r)
    \/ \E c \in Calls : CacheGetReturns(c)
    \/ \E c \in Calls : CacheGetFails(c)
    \/ \E c \in Calls, chunks \in ChunkLists : SearchReturns(c, chunks)
    \/ \E c \in Calls : SearchFails(c)
    \/ \E c \in Calls, stdout \in Stdouts : GenerateReturns(c, stdout)
    \/ \E c \in Calls : GenerateFails(c)
    \/ \E c \in Calls : CacheSetReturns(c)
    \/ \E c \in Calls : CacheSetFails(c)
    \/ \E k \in Keys : Expire(k)

Spec == Init /\ [][Next]_vars

(***************************************************************************)
(* Vocabulary of the properties.                                           *)
(***************************************************************************)
Has(c, e) == \E i \in DOMAIN call[c].trace : call[c].trace[i] = e

Once(c, e) ==
    \E i \in DOMAIN call[c].trace :
        /\ call[c].trace[i] = e
        /\ \A j \in DOMAIN call[c].trace : call[c].trace[j] = e => j = i

HitTrace == <<"cache.get", "cache.get.ret", "parse">>

MissTrace ==
    <<"cache.get", "cache.get.ret", "search_vector", "search_vector.ret",
      "generate", "generate.ret", "cache.set", "cache.set.ret", "parse">>

\* a text that carries every field of the report with a value of its type
SerializedReport(t) ==
    /\ t.valid
    /\ \A f \in RequiredFields :
          \E m \in t.members : m[1] = f /\ m[2][1] = FieldType[f]

\* the report a text carries: its declared fields, nothing else
ReportOf(t) == {m \in t.members : m[1] \in RequiredFields}

\* call c takes the step in which its cache read completes
ReadStep(c) == call[c].pc = "await_get" /\ Has(c, "cache.get.ret")'

\* call c takes the step in which its cache write completes
WriteStep(c) == call[c].pc = "await_set" /\ Has(c, "cache.set.ret")'

\* the key of call c's request
KeyOf(c) == cache_key(call[c].req)

(***************************************************************************)
(* C1  Cache hit: when cache.get returns a valid serialized report, the    *)
(* call returns the report that value deserialises to, and its only        *)
(* interaction is that one cache read: no retrieval call, no generation    *)
(* call, no cache write.                                                   *)
(***************************************************************************)
C1_Hit(c) ==
    (/\ ReadStep(c)
     /\ cache[KeyOf(c)].present
     /\ SerializedReport(cache[KeyOf(c)].value))
    => /\ call'[c].pc = "returned"
       /\ call'[c].report = ReportOf(cache[KeyOf(c)].value)
       /\ call'[c].trace = HitTrace
       /\ cache' = cache

\* C1: a read that finds a valid serialized report ends the call with that
\* report, a trace of one cache read and a parse, and the cache unchanged
C1_CacheHit == [][\A c \in Calls : C1_Hit(c)]_vars

\* a call served from the cache with the unit test's report (extra member)
C1_Witness ==
    \E c \in Calls :
        /\ call[c].pc = "returned"
        /\ call[c].trace = HitTrace
        /\ call[c].report = FullMembers("High")
        /\ cache[KeyOf(c)].value = ExtraReport

(***************************************************************************)
(* C2  Cache miss: when cache.get returns nothing and retrieval and        *)
(* generation succeed, the call makes exactly one cache read, one          *)
(* retrieval call, one generation call and one cache write; the write      *)
(* stores the raw generation output unchanged, under the key that was      *)
(* read, with expiration 3600 seconds, and touches no other key.           *)
(***************************************************************************)
C2_MissCounts ==
    \A c \in Calls :
        Has(c, "generate.ret")
        => /\ Once(c, "cache.get")
           /\ Once(c, "search_vector")
           /\ Once(c, "generate")
           /\ Once(c, "cache.set")

C2_ReadAndWrite(c) ==
    /\ (ReadStep(c) /\ ~cache[KeyOf(c)].present)
          => /\ call'[c].pc = "await_search"
             /\ call'[c].cached_report = cache[KeyOf(c)]
    /\ WriteStep(c)
          => cache' = [cache EXCEPT ![KeyOf(c)] =
                          [present |-> TRUE,
                           value |-> call[c].json_response_str,
                           ex |-> 3600,
                           by |-> c]]

\* C2: one read, one retrieval, one generation, one write on the miss path;
\* the write stores the raw output under the key read, with ex = 3600
C2_CacheMiss ==
    [](C2_MissCounts) /\ [][\A c \in Calls : C2_ReadAndWrite(c)]_vars

\* a miss that ran to the end and left the raw output, extra member
\* included, in the cache
C2_Witness ==
    \E c \in Calls :
        /\ call[c].pc = "returned"
        /\ call[c].trace = MissTrace
        /\ cache[KeyOf(c)] =
              [present |-> TRUE, value |-> ExtraReport, ex |-> 3600, by |-> c]

(***************************************************************************)
(* C3  After a call on a cold cache has completed successfully for a       *)
(* request, a later call with the same request whose cache read finds that *)
(* call's entry (not expired, not replaced by another call) returns the    *)
(* same report and invokes neither retrieval nor generation.               *)
(***************************************************************************)
C3_Second(c1, c2) ==
    (/\ c1 # c2
     /\ call[c1].pc = "returned"
     /\ call[c1].trace = MissTrace
     /\ call[c2].req = call[c1].req
     /\ ReadStep(c2)
     /\ cache[KeyOf(c1)].present
     /\ cache[KeyOf(c1)].by = c1)
    => /\ call'[c2].pc = "returned"
       /\ call'[c2].report = call[c1].report
       /\ ~Has(c2, "search_vector")'
       /\ ~Has(c2, "generate")'

\* C3: a later identical request that finds the first call's entry returns
\* the first call's report without retrieval or generation
C3_SecondIdenticalRequest ==
    [][\A c1, c2 \in Calls : C3_Second(c1, c2)]_vars

\* the first call missed and returned, the second was served from its entry
C3_Witness ==
    \E c1, c2 \in Calls :
        /\ c1 < c2
        /\ call[c1].req = call[c2].req
        /\ call[c1].pc = "returned" /\ call[c1].trace = MissTrace
        /\ call[c2].pc = "returned" /\ call[c2].trace = HitTrace
        /\ cache[KeyOf(c1)].by = c1
        /\ call[c2].report = call[c1].report
        /\ call[c2].report = FullMembers("Low")

(***************************************************************************)
(* C4  Within one call the steps happen strictly in the order cache read,  *)
(* then (on a miss only) retrieval, generation, cache write, then parse:   *)
(* a step starts only when the step before it has returned, and no two     *)
(* steps of a call are in flight at the same time.                         *)
(***************************************************************************)
Steps == {"cache.get", "search_vector", "generate", "cache.set"}

ReturnOf ==
    "cache.get" :> "cache.get.ret" @@ "search_vector" :> "search_vector.ret"
    @@ "generate" :> "generate.ret" @@ "cache.set" :> "cache.set.ret"

RaiseOf ==
    "cache.get" :> "cache.get.raise" @@ "search_vector" :> "search_vector.raise"
    @@ "generate" :> "generate.raise" @@ "cache.set" :> "cache.set.raise"

\* the events after which event e may come, and only directly after
Before(e) ==
    CASE e = "cache.get" -> {}
      [] e = "search_vector" -> {"cache.get.ret"}
      [] e = "generate" -> {"search_vector.ret"}
      [] e = "cache.set" -> {"generate.ret"}
      [] e = "parse" -> {"cache.get.ret", "cache.set.ret"}
      [] OTHER -> {s \in Steps : e \in {ReturnOf[s], RaiseOf[s]}}

\* the number of steps started and not yet ended among the first n events
InFlight(t, n) ==
    Cardinality({i \in 1..n : t[i] \in Steps})
      - Cardinality({i \in 1..n : \E s \in Steps : t[i] \in {ReturnOf[s], RaiseOf[s]}})

C4_Ordered(t) ==
    /\ \A i \in DOMAIN t :
          IF i = 1 THEN t[i] = "cache.get" ELSE t[i - 1] \in Before(t[i])
    /\ \A n \in DOMAIN t : InFlight(t, n) \in {0, 1}
    /\ \A i, j \in DOMAIN t : (t[i] = t[j] /\ t[i] \in Steps) => i = j

\* C4: every call's steps are strictly ordered and never overlap
C4_StrictOrder ==
    \A c \in Calls :
        /\ C4_Ordered(call[c].trace)
        /\ call[c].pc \in {"await_get", "await_search", "await_generate", "await_set"}
              => InFlight(call[c].trace, Len(call[c].trace)) = 1
        /\ Finished(c) => InFlight(call[c].trace, Len(call[c].trace)) = 0

\* a call that went through all five steps
C4_Witness ==
    \E c \in Calls : call[c].trace = MissTrace /\ call[c].pc = "returned"

(***************************************************************************)
(* C5  On a miss the raw generation output is written to the cache before  *)
(* it is parsed: when it does not parse as a report the call fails, the    *)
(* cache holds that raw output under the call's key exactly as written,    *)
(* and the failing call does nothing to the cache afterwards.              *)
(***************************************************************************)
C5_Write(c) ==
    (WriteStep(c) /\ ~SerializedReport(call[c].json_response_str))
    => /\ call'[c].pc = "failed"
       /\ call'[c].report = {}
       /\ call'[c].trace = MissTrace
       /\ cache'[KeyOf(c)] =
             [present |-> TRUE, value |-> call[c].json_response_str,
              ex |-> 3600, by |-> c]

\* a call that has ended takes no further step
C5_Ended(c) == Finished(c) => call'[c] = call[c]

\* C5: an output that does not parse is in the cache, as written, when the
\* call fails, and stays untouched by that call
C5_CachedBeforeParse == [][\A c \in Calls : C5_Write(c) /\ C5_Ended(c)]_vars

\* the call failed on prose; the prose is in the cache under its key
C5_Witness ==
    \E c \in Calls :
        /\ call[c].pc = "failed"
        /\ call[c].trace = MissTrace
        /\ cache[KeyOf(c)] =
              [present |-> TRUE, value |-> ProseText, ex |-> 3600, by |-> c]

(***************************************************************************)
(* C6  Once a miss-path call has cached an output that does not parse as a *)
(* report (any such output, the empty string included), every later call   *)
(* with the same request that reads before the entry expires is served as  *)
(* a cache hit: it fails with a parse failure and makes no retrieval, no   *)
(* generation and no cache write.                                          *)
(***************************************************************************)
C6_Replay(c1, c2) ==
    (/\ c1 # c2
     /\ call[c2].req = call[c1].req
     /\ ReadStep(c2)
     /\ cache[KeyOf(c2)].present
     /\ cache[KeyOf(c2)].by = c1
     /\ ~SerializedReport(cache[KeyOf(c2)].value))
    => /\ call'[c2].pc = "failed"
       /\ call'[c2].error.type = "ValidationError"
       /\ call'[c2].trace = HitTrace
       /\ cache' = cache

\* C6: every cached output that does not parse, the empty string included,
\* is replayed to the next identical request as a failing cache hit
C6_MalformedReplayedAsHit ==
    [][\A c1, c2 \in Calls : C6_Replay(c1, c2)]_vars

(***************************************************************************)
(* C7  perform_analysis never returns a partially built report: on the hit *)
(* path and on the miss path, a text that is not valid JSON or omits any   *)
(* of the six required fields ends the call in a failure without a report; *)
(* a text with every required field is returned as a report whatever       *)
(* other members it has.                                                   *)
(***************************************************************************)
SixFields ==
    {"package_name", "score", "summary", "vulnerability_name",
     "severity_level", "mitigation_actions"}

Omits(t, f) == \A m \in t.members : m[1] # f

\* call c takes the step in which it parses a text
ParseStep(c) == ~Has(c, "parse") /\ Has(c, "parse")'

\* the text that step parses: the cached value on a hit, the raw output on a miss
ParsedText(c) ==
    IF call[c].pc = "await_get" THEN cache[KeyOf(c)].value
    ELSE call[c].json_response_str

C7_Parse(c) ==
    ParseStep(c) =>
        LET t == ParsedText(c) IN
        /\ (~t.valid \/ \E f \in SixFields : Omits(t, f))
              => call'[c].pc = "failed" /\ call'[c].report = {}
        /\ SerializedReport(t)
              => call'[c].pc = "returned" /\ call'[c].report = ReportOf(t)

C7_Whole ==
    \A c \in Calls :
        IF call[c].pc = "returned"
        THEN {m[1] : m \in call[c].report} = SixFields
        ELSE call[c].report = {}

\* C7: a returned report always has the six fields; invalid JSON or an
\* omitted field fails the call on either path, extra members do not
C7_NoPartialReport == [](C7_Whole) /\ [][\A c \in Calls : C7_Parse(c)]_vars

\* a text without mitigation_actions failed one call on the miss path and
\* another on the hit path
C7_Witness ==
    \E c1, c2 \in Calls :
        /\ call[c1].req = call[c2].req
        /\ call[c1].pc = "failed" /\ call[c1].trace = MissTrace
        /\ call[c2].pc = "failed" /\ call[c2].trace = HitTrace
        /\ cache[KeyOf(c1)].by = c1
        /\ cache[KeyOf(c1)].value = MissingReport("mitigation_actions")

(***************************************************************************)
(* C8  On the miss path, when the raw output does not deserialise          *)
(* (malformed JSON or a missing required field), the call fails with the   *)
(* malformed-output error that carries the first 200 characters of the     *)
(* output, and generation is not invoked a second time.                    *)
(***************************************************************************)
C8_Failure(c) ==
    (WriteStep(c) /\ ~SerializedReport(call[c].json_response_str))
    => /\ call'[c].pc = "failed"
       /\ call'[c].error =
             [type |-> "ValueError",
              excerpt |-> IF call[c].json_response_str.len <= 200
                          THEN call[c].json_response_str.len ELSE 200]
       /\ Once(c, "generate")'

\* C8: a miss-path parse failure raises the ValueError with the first 200
\* characters of the output, after exactly one generation call
C8_MalformedOutputError == [][\A c \in Calls : C8_Failure(c)]_vars

(***************************************************************************)
(* C10  Two calls with the same request that interleave on a cold cache    *)
(* can both miss, both retrieve and generate, and both write; every write  *)
(* replaces what is stored under the key, so the cache holds the output of *)
(* the call that wrote last.                                               *)
(***************************************************************************)
C10_Overwrite(c) ==
    WriteStep(c) =>
        /\ cache'[KeyOf(c)].value = call[c].json_response_str
        /\ cache'[KeyOf(c)].by = c

\* the cache changes only by a write of the key's call or by expiry
C10_Changes(k) ==
    cache'[k] # cache[k] =>
        \/ \E c \in Calls : WriteStep(c) /\ KeyOf(c) = k
        \/ ~cache'[k].present

\* the last writer's result is the one the stored value deserialises to
C10_LastWriter ==
    \A k \in Keys :
        (cache[k].present /\ Finished(cache[k].by))
        => /\ KeyOf(cache[k].by) = k
           /\ Has(cache[k].by, "cache.set.ret")
           /\ call[cache[k].by].report =
                 IF SerializedReport(cache[k].value)
                 THEN ReportOf(cache[k].value) ELSE {}

\* C10: racing identical requests may both generate and write; each write
\* replaces the stored value, so the last writer's output is what remains
C10_LastWriteWins ==
    /\ [](C10_LastWriter)
    /\ [][/\ \A c \in Calls : C10_Overwrite(c)
          /\ \A k \in Keys : C10_Changes(k)]_vars

\* both calls missed, generated and wrote; the call that arrived first wrote
\* last, and its output, not the other's, is what the cache holds
C10_Witness ==
    \E c1, c2 \in Calls :
        /\ c1 < c2
        /\ call[c1].req = call[c2].req
        /\ call[c1].trace = MissTrace /\ call[c1].report = FullMembers("Low")
        /\ call[c2].trace = MissTrace /\ call[c2].report = FullMembers("High")
        /\ cache[KeyOf(c1)].by = c1
        /\ cache[KeyOf(c1)].value = LowReport

(***************************************************************************)
(* OpenSearchService: the index and its callers.  The callers are the      *)
(* threads and processes that use the service at the same time; each step  *)
(* of a caller is one request to the search engine.                        *)
(***************************************************************************)
MaxWorkers == 2

Workers == 1..MaxWorkers

DocIds == {"d1", "d2"}

\* the docs argument of index_docs, by the ids of its documents
DocLists == {<< >>, <<"d1">>, <<"d1", "d2">>}

NoIndex == [exists |-> FALSE, creations |-> 0, docs |-> {}]

IdleWorker ==
    [pc |-> "idle", op |-> "", docs |-> << >>, trace |-> << >>,
     indexed |-> 0, hits |-> {}, error |-> NoError]

InitSearch ==
    /\ index = NoIndex
    /\ worker = [w \in Workers |-> IdleWorker]
    /\ coordinator_apart /\ fusion_apart /\ gen_apart /\ llama_apart /\ http_apart

\* Workers are numbered in the order they call.
Arrives(w) ==
    /\ worker[w].pc = "idle"
    /\ \A v \in Workers : v < w => worker[v].pc # "idle"

\* opensearch_service.py:55-56: _ensure_index asks the engine whether the
\* index exists
EnsureIndexBegins(w, op, docs) ==
    [worker EXCEPT ![w] =
        [@ EXCEPT !.pc = "exists", !.op = op, !.docs = docs,
                  !.trace = <<"indices.exists">>]]

\* opensearch_service.py:57 and 87-88: _ensure_index has returned; the
\* operation that called it goes on (index_docs: 104-127 encode and send the
\* bulk; search_knn_slim: 139-156 encode the query and search)
EnsureIndexReturns(w, events) ==
    [worker EXCEPT ![w] =
        CASE worker[w].op = "index_docs" ->
                [@ EXCEPT !.pc = "bulk",
                          !.trace = @ \o events \o <<"encode", "bulk">>]
          [] worker[w].op = "search_knn_slim" ->
                [@ EXCEPT !.pc = "search",
                          !.trace = @ \o events \o <<"encode", "search">>]
          [] OTHER ->
                [@ EXCEPT !.pc = "returned", !.trace = @ \o events]]

\* main.py lifespan (tests/api/test_analysis_endpoint.py:16-18): a direct
\* call of _ensure_index
ensure_index(w) ==
    /\ Arrives(w)
    /\ worker' = EnsureIndexBegins(w, "ensure_index", << >>)
    /\ UNCHANGED index
    /\ UNCHANGED beside_search

\* variant: the index is ensured before the empty list is looked at
index_docs_ensure_first(w, docs) ==
    /\ Arrives(w)
    /\ worker' = EnsureIndexBegins(w, "index_docs", docs)
    /\ UNCHANGED index
    /\ UNCHANGED beside_search

\* opensearch_service.py:97-102: an empty list returns {"indexed": 0} at
\* once; otherwise _ensure_index is called first
index_docs(w, docs) ==
    /\ Arrives(w)
    /\ IF docs = << >>
       THEN worker' = [worker EXCEPT ![w] =
                [@ EXCEPT !.pc = "returned", !.op = "index_docs",
                          !.docs = docs, !.indexed = 0]]
       ELSE worker' = EnsureIndexBegins(w, "index_docs", docs)
    /\ UNCHANGED index
    /\ UNCHANGED beside_search

\* opensearch_service.py:134-137: search_knn_slim calls _ensure_index first
search_knn_slim(w) ==
    /\ Arrives(w)
    /\ worker' = EnsureIndexBegins(w, "search_knn_slim", << >>)
    /\ UNCHANGED index
    /\ UNCHANGED beside_search

\* opensearch_service.py:56-87: the engine answers indices.exists; on True
\* _ensure_index returns, on False it sends indices.create
ExistsReturns(w) ==
    /\ worker[w].pc = "exists"
    /\ IF index.exists
       THEN worker' = EnsureIndexReturns(w, <<"indices.exists.ret">>)
       ELSE worker' = [worker EXCEPT ![w] =
                [@ EXCEPT !.pc = "create",
                          !.trace = @ \o <<"indices.exists.ret", "indices.create">>]]
    /\ UNCHANGED index
    /\ UNCHANGED beside_search

\* opensearch_service.py:87: the engine creates the index
CreateReturns(w) ==
    /\ worker[w].pc = "create"
    /\ ~index.exists
    /\ index' = [index EXCEPT !.exists = TRUE, !.creations = @ + 1]
    /\ worker' = EnsureIndexReturns(w, <<"indices.create.ret">>)
    /\ UNCHANGED beside_search

\* opensearch_service.py:87-91: the engine rejects the creation of an index
\* that exists by now (resource_already_exists_exception); the except clause
\* prints and raises again, and the calling operation does not catch it
CreateFails(w) ==
    /\ worker[w].pc = "create"
    /\ index.exists
    /\ worker' = [worker EXCEPT ![w] =
            [@ EXCEPT !.pc = "failed",
                      !.error = Raised("RequestError"),
                      !.trace = @ \o <<"indices.create.raise">>]]
    /\ UNCHANGED index
    /\ UNCHANGED beside_search

\* opensearch_service.py:111-128: the bulk upserts every document under its
\* id; the count of written documents is returned
BulkReturns(w) ==
    /\ worker[w].pc = "bulk"
    /\ index' = [index EXCEPT
            !.docs = @ \cup {worker[w].docs[i] : i \in DOMAIN worker[w].docs}]
    /\ worker' = [worker EXCEPT ![w] =
            [@ EXCEPT !.pc = "returned",
                      !.indexed = Len(worker[w].docs),
                      !.trace = @ \o <<"bulk.ret">>]]
    /\ UNCHANGED beside_search

\* opensearch_service.py:156-167: the hits of the vector search
KnnSearchReturns(w) ==
    /\ worker[w].pc = "search"
    /\ worker' = [worker EXCEPT ![w] =
            [@ EXCEPT !.pc = "returned",
                      !.hits = index.docs,
                      !.trace = @ \o <<"search.ret">>]]
    /\ UNCHANGED index
    /\ UNCHANGED beside_search

NextSearch ==
    \/ \E w \in Workers : ensure_index(w)
    \/ \E w \in Workers, docs \in DocLists : index_docs(w, docs)
    \/ \E w \in Workers : search_knn_slim(w)
    \/ \E w \in Workers : ExistsReturns(w)
    \/ \E w \in Workers : CreateReturns(w)
    \/ \E w \in Workers : CreateFails(w)
    \/ \E w \in Workers : BulkReturns(w)
    \/ \E w \in Workers : KnnSearchReturns(w)

SpecSearch == InitSearch /\ [][NextSearch]_vars

WorkerHas(w, e) == \E i \in DOMAIN worker[w].trace : worker[w].trace[i] = e

\* the worker's call of _ensure_index is over
Ensured(w) == WorkerHas(w, "indices.exists.ret") /\ worker[w].pc \notin {"exists", "create"}

\* C11: after any interleaving of ensure-index calls on the same index the
\* index exists, was created at most once and no ensure-index call has
\* failed; a call that found the index existing has sent no create.
C11_EnsureIndexSafe ==
    /\ index.creations <= 1
    /\ \A w \in Workers :
        /\ Ensured(w) => index.exists
        /\ worker[w].error = NoError
        /\ (worker[w].pc # "idle" /\ ~WorkerHas(w, "indices.create"))
              => ~WorkerHas(w, "indices.create.ret")

\* C14: index_docs with an empty list returns the count zero in one step
\* that leaves the engine as it was, and the call has sent nothing: no
\* encode, no indices.exists or indices.create, no bulk.
C14_Empty(w) == worker[w].op = "index_docs" /\ worker[w].docs = << >>

C14_NoEffect ==
    [][\A w \in Workers :
          (worker[w].pc = "idle" /\ worker'[w].op = "index_docs"
                /\ worker'[w].docs = << >>)
             => /\ worker'[w].pc = "returned"
                /\ worker'[w].indexed = 0
                /\ worker'[w].trace = << >>
                /\ index' = index]_vars

C14_Stays ==
    \A w \in Workers :
        C14_Empty(w) => worker[w].pc = "returned" /\ worker[w].trace = << >>
                          /\ worker[w].indexed = 0

C14_EmptyBulkNoOp == []C14_Stays /\ C14_NoEffect

C14_Witness ==
    \E w \in Workers :
        C14_Empty(w) /\ worker[w].pc = "returned" /\ ~index.exists

(***************************************************************************)
(* OpenSearchService.search_hybrid_slim: the lexical and the vector search *)
(* and their fusion by reciprocal rank.  A score is the exact fraction     *)
(* <<numerator, denominator>>; the floats of the code order these sums the *)
(* same way (two different sums differ by more than 1e-8).                 *)
(***************************************************************************)
MaxTopK == 4

RRF_K == 60

HitIds == {"A", "B", "C", "D"}

\* the hits of one search: at most size = top_k documents of the index,
\* each once, best first
HitLists(stored, top_k) ==
    {h \in UNION {[1..n -> stored] : n \in 0..top_k} :
        \A i, j \in DOMAIN h : i # j => h[i] # h[j]}

Zero == <<0, 1>>

Plus(a, b) == <<a[1] * b[2] + b[1] * a[2], a[2] * b[2]>>

Less(a, b) == a[1] * b[2] < b[1] * a[2]

Same(a, b) == a[1] * b[2] = b[1] * a[2]

\* variant: ranks counted from 0
Reciprocal_from_zero(rank) == <<1, RRF_K + rank - 1>>

\* opensearch_service.py:213: 1.0 / (60 + rank)
Reciprocal(rank) == <<1, RRF_K + rank>>

\* opensearch_service.py:212-213: scores.setdefault(_id, 0.0); scores[_id] += x
\* The dict is the sequence of its items in insertion order.
Accumulate(scores, id, x) ==
    IF \E i \in DOMAIN scores : scores[i].id = id
    THEN [i \in DOMAIN scores |->
            IF scores[i].id = id
            THEN [id |-> id, score |-> Plus(scores[i].score, x)]
            ELSE scores[i]]
    ELSE Append(scores, [id |-> id, score |-> Plus(Zero, x)])

\* opensearch_service.py:207-213: add_rrf, from the hit at position rank on
RECURSIVE add_rrf(_, _, _)
add_rrf(scores, hlist, rank) ==
    IF rank > Len(hlist)
    THEN scores
    ELSE add_rrf(IF hlist[rank] = ""
                 THEN scores
                 ELSE Accumulate(scores, hlist[rank], Reciprocal(rank)),
                 hlist, rank + 1)

\* the place of x in a list that is sorted by score, best first: behind
\* every item that is not worse
RECURSIVE InsertSorted(_, _)
InsertSorted(items, x) ==
    IF items = << >> THEN <<x>>
    ELSE IF Less(Head(items).score, x.score)
         THEN <<x>> \o items
         ELSE <<Head(items)>> \o InsertSorted(Tail(items), x)

\* opensearch_service.py:221: sorted(scores.items(), key=score, reverse=True),
\* a stable sort: items of equal score keep their order
RECURSIVE sorted_reverse(_)
sorted_reverse(items) ==
    IF items = << >> THEN << >>
    ELSE InsertSorted(sorted_reverse(SubSeq(items, 1, Len(items) - 1)),
                      items[Len(items)])

\* variant: no limit
Slice_all(items, k) == items

\* opensearch_service.py:222: merged[:top_k]
Slice(items, k) == SubSeq(items, 1, Min(k, Len(items)))

\* opensearch_service.py:205-216
Scores(bm25_hits, knn_hits) == add_rrf(add_rrf(<< >>, bm25_hits, 1), knn_hits, 1)

\* opensearch_service.py:221-222
top_ids(scores, top_k) ==
    LET merged == Slice(sorted_reverse(scores), top_k) IN
    [i \in DOMAIN merged |-> merged[i].id]

\* opensearch_service.py:224: the docs of the mget response, in the order of
\* the ids asked for, found when the index holds the id
mget(stored, ids) == [i \in DOMAIN ids |-> [id |-> ids[i], found |-> ids[i] \in stored]]

RECURSIVE SelectFound(_)
SelectFound(docs) ==
    IF docs = << >> THEN << >>
    ELSE (IF Head(docs).found THEN <<Head(docs).id>> ELSE << >>)
            \o SelectFound(Tail(docs))

\* opensearch_service.py:233: scores.get(doc.get("_id"), 0)
ScoreOf(scores, id) ==
    IF \E i \in DOMAIN scores : scores[i].id = id
    THEN scores[CHOOSE i \in DOMAIN scores : scores[i].id = id].score
    ELSE Zero

\* opensearch_service.py:226-238
Hits(scores, docs) ==
    LET ids == SelectFound(docs) IN
    [i \in DOMAIN ids |-> [id |-> ids[i], score |-> ScoreOf(scores, ids[i])]]

\* a call of search_hybrid_slim(query, top_k) on an index that holds the
\* documents `stored` (_ensure_index, line 175, is in SpecSearch)
InitFusion ==
    /\ \E stored \in SUBSET HitIds, top_k \in 1..MaxTopK :
        fusion = [pc |-> "bm25", stored |-> stored, top_k |-> top_k,
                  bm25_hits |-> << >>, knn_hits |-> << >>,
                  asked |-> << >>, fetched |-> FALSE, hits |-> << >>]
    /\ coordinator_apart /\ search_apart /\ gen_apart /\ llama_apart /\ http_apart

\* opensearch_service.py:182-201: the lexical search answers
Bm25Returns ==
    /\ fusion.pc = "bm25"
    /\ \E h \in HitLists(fusion.stored, fusion.top_k) :
          fusion' = [fusion EXCEPT !.pc = "knn", !.bm25_hits = h]
    /\ UNCHANGED beside_fusion

\* opensearch_service.py:201-224: the vector search answers; the scores are
\* fused and the best ids are asked for, or [] is returned
KnnReturns ==
    /\ fusion.pc = "knn"
    /\ \E h \in HitLists(fusion.stored, fusion.top_k) :
          LET scores == Scores(fusion.bm25_hits, h) IN
          IF scores = << >>
          THEN fusion' = [fusion EXCEPT !.pc = "returned", !.knn_hits = h]
          ELSE fusion' = [fusion EXCEPT !.pc = "mget", !.knn_hits = h,
                                        !.asked = top_ids(scores, fusion.top_k),
                                        !.fetched = TRUE]
    /\ UNCHANGED beside_fusion

\* opensearch_service.py:224-238: the records arrive
MgetReturns ==
    /\ fusion.pc = "mget"
    /\ fusion' = [fusion EXCEPT
            !.pc = "returned",
            !.hits = Hits(Scores(fusion.bm25_hits, fusion.knn_hits),
                          mget(fusion.stored, fusion.asked))]
    /\ UNCHANGED beside_fusion

NextFusion ==
    \/ Bm25Returns
    \/ KnnReturns
    \/ MgetReturns

SpecFusion == InitFusion /\ [][NextFusion]_vars

\* the 1-based rank of id in a hit list, 0 when it is not in the list
RankIn(h, id) == IF \E i \in DOMAIN h : h[i] = id THEN CHOOSE i \in DOMAIN h : h[i] = id ELSE 0

\* the sum, over the lists that contain id, of 1/(60 + rank)
C12_Term(h, id) == IF RankIn(h, id) = 0 THEN Zero ELSE <<1, 60 + RankIn(h, id)>>

C12_Fused(id) == Plus(C12_Term(fusion.bm25_hits, id), C12_Term(fusion.knn_hits, id))

C12_Example ==
    /\ fusion.bm25_hits = <<"A", "B", "C">>
    /\ fusion.knn_hits = <<"B", "D">>
    /\ fusion.top_k >= 4

Union == {fusion.bm25_hits[i] : i \in DOMAIN fusion.bm25_hits}
            \cup {fusion.knn_hits[i] : i \in DOMAIN fusion.knn_hits}

HitIdsOf == {fusion.hits[i].id : i \in DOMAIN fusion.hits}

\* C12: every returned hit carries the sum over the lists containing its id
\* of 1/(60 + its 1-based rank), the hits are in descending order of that
\* score, and lexical [A,B,C] with vector [B,D] gives [B,A,D,C] with
\* B = 1/61 + 1/62.
C12_ReciprocalRankFusion ==
    fusion.pc = "returned" =>
        /\ \A i \in DOMAIN fusion.hits :
              Same(fusion.hits[i].score, C12_Fused(fusion.hits[i].id))
        /\ \A i, j \in DOMAIN fusion.hits :
              i < j => ~Less(fusion.hits[i].score, fusion.hits[j].score)
        /\ C12_Example =>
              /\ [i \in DOMAIN fusion.hits |-> fusion.hits[i].id] = <<"B", "A", "D", "C">>
              /\ Same(fusion.hits[1].score, <<61 + 62, 61 * 62>>)

C12_Witness == fusion.pc = "returned" /\ C12_Example /\ Len(fusion.hits) = 4

\* C13: the call returns at most top_k hits, no id twice, and they are the
\* top_k ids of the union of both lists with the highest fused scores (all of
\* the union when it has fewer); when both searches found nothing it returns
\* [] and has asked for no record.
C13_TopK ==
    fusion.pc = "returned" =>
        /\ Len(fusion.hits) <= fusion.top_k
        /\ \A i, j \in DOMAIN fusion.hits : i # j => fusion.hits[i].id # fusion.hits[j].id
        /\ HitIdsOf \subseteq Union
        /\ Len(fusion.hits) = Min(fusion.top_k, Cardinality(Union))
        /\ \A x \in HitIdsOf, y \in Union \ HitIdsOf : ~Less(C12_Fused(x), C12_Fused(y))
        /\ (fusion.bm25_hits = << >> /\ fusion.knn_hits = << >>)
              => fusion.hits = << >> /\ ~fusion.fetched

C13_NoFetchWhenEmpty ==
    [][(fusion.pc = "knn" /\ fusion.bm25_hits = << >> /\ fusion'.knn_hits = << >>)
          => fusion'.pc = "returned" /\ fusion'.hits = << >>]_vars

C13_TopKOfUnion == []C13_TopK /\ C13_NoFetchWhenEmpty

C13_Witness ==
    /\ fusion.pc = "returned"
    /\ Cardinality(Union) > fusion.top_k
    /\ Len(fusion.hits) = fusion.top_k
    /\ fusion.top_k >= 2

(***************************************************************************)
(* LlamaService: one generation request, run once in each form against a   *)
(* child process that behaves the same way for both.  What the child       *)
(* writes is bytes: a text plus the number of bytes that are not valid in  *)
(* the encoding.                                                           *)
(***************************************************************************)
Forms == {"sync", "async"}

Prompts == {"prompt"}

TokenBudgets == {200, 512}

\* extra_args and default_extra_args; None and [] are both << >>
ArgLists == {<< >>, <<"--temp", "0.2">>}

\* timeout: << >> is None, <<t>> is t seconds
Timeouts == {<< >>, <<30>>}

Bytes(t, bad) == [text |-> t, bad |-> bad]

StdoutBytes ==
    {Bytes(t, bad) : t \in {EmptyText, ProseText, HighReportNl}, bad \in {0, 1}}

StderrBytes == {Bytes(EmptyText, 0), Bytes(Text(40, 1, FALSE, {}), 0),
                Bytes(Text(40, 1, FALSE, {}), 1)}

ExitCodes == {0, 1}

\* how the child behaves: it exits by itself before any deadline, or it is
\* still running when the deadline passes
Exiting == [kind : {"exit"}, returncode : ExitCodes, stdout : StdoutBytes, stderr : StderrBytes]

Hanging == [kind |-> "hang", returncode |-> 0, stdout |-> Bytes(HighReportNl, 0),
            stderr |-> Bytes(EmptyText, 0)]

Behaviours == Exiting \cup {Hanging}

\* llama_service.py:71-83, a constructed service
llama_cpp == "/app/llama.cpp/build/bin/llama-cli"
model_path == "/models/model.gguf"
default_ngl == "0"

\* llama_service.py:136-155
build_command(prompt, max_tokens, extra_args, default_extra_args) ==
    <<llama_cpp, "-m", model_path, "-n", ToString(max_tokens),
      "-ngl", default_ngl, "-p", prompt>>
        \o (IF extra_args # << >> THEN extra_args ELSE default_extra_args)

\* bytes.decode(errors="ignore"), llama_service.py:226-227
decode_ignore(b) == b.text

\* the decoding of subprocess.run(text=True), llama_service.py:170-175:
\* strict, an invalid byte raises UnicodeDecodeError
decodable(b) == b.bad = 0

NoOutcome == [class |-> "none"]

Returned(text) == [class |-> "text", text |-> text]

\* RuntimeError("LLaMA falhou (exit N).\ncmd: ...\nstderr:\n...")
ExitError(returncode, cmd, stderr) ==
    [class |-> "error", kind |-> "RuntimeError", what |-> "exit",
     returncode |-> returncode, cmd |-> cmd, stderr |-> stderr]

\* async: RuntimeError("LLaMA timeout.\ncmd: ..."); sync: the
\* subprocess.TimeoutExpired(cmd, timeout) that subprocess.run raises
TimeoutError(form, cmd) ==
    [class |-> "error",
     kind |-> IF form = "async" THEN "RuntimeError" ELSE "TimeoutExpired",
     what |-> "timeout", cmd |-> cmd]

DecodeError == [class |-> "error", kind |-> "UnicodeDecodeError", what |-> "decode"]

\* llama_service.py:177-184 and 201-208
Classify(cmd, returncode, stdout, stderr) ==
    IF returncode # 0
    THEN ExitError(returncode, cmd, stderr)
    ELSE Returned(strip(stdout))

IdleRun == [pc |-> "idle", cmd |-> << >>, child |-> "none", outcome |-> NoOutcome]

InitGen ==
    /\ \E prompt \in Prompts, max_tokens \in TokenBudgets, extra_args \in ArgLists,
          default_extra_args \in ArgLists, timeout \in Timeouts, b \in Behaviours :
        gen = [prompt |-> prompt, max_tokens |-> max_tokens, extra_args |-> extra_args,
               default_extra_args |-> default_extra_args, timeout |-> timeout,
               behaviour |-> b,
               run |-> [f \in Forms |-> IdleRun]]
    /\ coordinator_apart /\ search_apart /\ fusion_apart /\ llama_apart /\ http_apart

Command == build_command(gen.prompt, gen.max_tokens, gen.extra_args, gen.default_extra_args)

Spawn(f) ==
    /\ gen.run[f].pc = "idle"
    /\ gen' = [gen EXCEPT !.run[f] =
            [@ EXCEPT !.pc = "waiting", !.cmd = Command, !.child = "running"]]
    /\ UNCHANGED beside_gen

\* llama_service.py:161-175: build the command, subprocess.run starts the child
generate_response == Spawn("sync")

\* llama_service.py:190-218: build the command, create_subprocess_exec
generate_response_async == Spawn("async")

\* the child process ends by itself: in time, or after the deadline has
\* passed and before the parent has killed it
ChildExits(f) ==
    /\ gen.run[f].child = "running"
    /\ \/ gen.behaviour.kind = "exit" /\ gen.run[f].pc = "waiting"
       \/ gen.behaviour.kind = "hang" /\ gen.run[f].pc = "timedout"
    /\ gen' = [gen EXCEPT !.run[f].child = "exited"]
    /\ UNCHANGED beside_gen

\* llama_service.py:170-184: subprocess.run returns the decoded output of the
\* child that has exited; a byte that does not decode raises
RunReturns ==
    /\ gen.run["sync"].pc = "waiting"
    /\ gen.run["sync"].child = "exited"
    /\ LET b == gen.behaviour
           outcome == IF decodable(b.stdout) /\ decodable(b.stderr)
                      THEN Classify(gen.run["sync"].cmd, b.returncode,
                                    b.stdout.text, b.stderr.text)
                      ELSE DecodeError IN
       gen' = [gen EXCEPT !.run["sync"] =
            [@ EXCEPT !.pc = IF outcome.class = "text" THEN "returned" ELSE "failed",
                      !.outcome = outcome]]
    /\ UNCHANGED beside_gen

\* llama_service.py:199-208 and 219-230: communicate returns, the output is
\* decoded with errors="ignore"
RunAsyncReturns ==
    /\ gen.run["async"].pc = "waiting"
    /\ gen.run["async"].child = "exited"
    /\ LET b == gen.behaviour
           outcome == Classify(gen.run["async"].cmd, b.returncode,
                               decode_ignore(b.stdout), decode_ignore(b.stderr)) IN
       gen' = [gen EXCEPT !.run["async"] =
            [@ EXCEPT !.pc = IF outcome.class = "text" THEN "returned" ELSE "failed",
                      !.outcome = outcome]]
    /\ UNCHANGED beside_gen

\* the timeout passes while the child is running: wait_for raises
\* asyncio.TimeoutError (llama_service.py:218-221), communicate(timeout=...)
\* inside subprocess.run raises TimeoutExpired (170-175)
Deadline(f) ==
    /\ gen.run[f].pc = "waiting"
    /\ gen.timeout # << >>
    /\ gen.run[f].child = "running"
    /\ gen.behaviour.kind = "hang"
    /\ gen' = [gen EXCEPT !.run[f].pc = "timedout"]
    /\ UNCHANGED beside_gen

\* variant: the error is raised and the child is left alone
KillAndRaise_nokill(f) ==
    /\ gen.run[f].pc = "timedout"
    /\ gen' = [gen EXCEPT !.run[f] =
            [@ EXCEPT !.pc = "failed",
                      !.outcome = TimeoutError(f, gen.run[f].cmd)]]
    /\ UNCHANGED beside_gen

\* llama_service.py:221-224: proc.kill() under suppress(ProcessLookupError),
\* then raise RuntimeError; subprocess.run (170-175) kills the child the
\* same way and raises TimeoutExpired again.  A child that is gone stays as
\* it is.
KillAndRaise(f) ==
    /\ gen.run[f].pc = "timedout"
    /\ gen' = [gen EXCEPT !.run[f] =
            [@ EXCEPT !.pc = "failed",
                      !.child = IF @ = "running" THEN "killed" ELSE @,
                      !.outcome = TimeoutError(f, gen.run[f].cmd)]]
    /\ UNCHANGED beside_gen

NextGen ==
    \/ generate_response
    \/ generate_response_async
    \/ \E f \in Forms : ChildExits(f)
    \/ RunReturns
    \/ RunAsyncReturns
    \/ \E f \in Forms : Deadline(f)
    \/ \E f \in Forms : KillAndRaise(f)

SpecGen == InitGen /\ [][NextGen]_vars

Over(f) == gen.run[f].pc \in {"returned", "failed"}

\* the call's child was running when the timeout passed
Exceeded(f) == gen.run[f].pc = "timedout" \/ (Over(f) /\ gen.behaviour.kind = "hang")

\* C15: a call whose child exceeds the timeout, in either form, ends in a
\* timeout error that carries the command line, after the child was killed
\* or was found gone; it never returns text.
C15_Ends ==
    \A f \in Forms :
        (Exceeded(f) /\ Over(f)) =>
            /\ gen.run[f].pc = "failed"
            /\ gen.run[f].outcome.class = "error"
            /\ gen.run[f].outcome.what = "timeout"
            /\ gen.run[f].outcome.cmd = Command
            /\ gen.run[f].child \in {"killed", "exited"}

C15_Step ==
    [][\A f \in Forms :
          (gen.run[f].pc = "timedout" /\ gen'.run[f].pc # "timedout")
             => gen'.run[f].pc = "failed" /\ gen'.run[f].outcome.class # "text"]_vars

C15_TimeoutError == []C15_Ends /\ C15_Step

C15_Witness ==
    /\ gen.run["sync"].pc = "failed" /\ gen.run["sync"].outcome.what = "timeout"
    /\ gen.run["sync"].child = "exited"
    /\ gen.run["async"].pc = "failed" /\ gen.run["async"].outcome.what = "timeout"
    /\ gen.run["async"].child = "killed"

\* C16: a call whose child exits within the timeout is classified by the
\* exit code alone: non-zero gives the error with the exit code, the command
\* line and the captured standard error; 0 gives the trimmed standard output.
C16_ByExitCodeAlone ==
    \A f \in Forms :
        (Over(f) /\ gen.behaviour.kind = "exit") =>
            IF gen.behaviour.returncode # 0
            THEN /\ gen.run[f].outcome.class = "error"
                 /\ gen.run[f].outcome.what = "exit"
                 /\ gen.run[f].outcome.returncode = gen.behaviour.returncode
                 /\ gen.run[f].outcome.cmd = Command
                 /\ gen.run[f].outcome.stderr = gen.behaviour.stderr.text
            ELSE /\ gen.run[f].outcome.class = "text"
                 /\ gen.run[f].outcome.text = strip(gen.behaviour.stdout.text)

\* C17: for the same arguments and the same behaviour of the child, the two
\* forms build the same command line and end in the same class of outcome,
\* errors being of the same kind.
C17_SameBehaviour ==
    (Over("sync") /\ Over("async")) =>
        /\ gen.run["sync"].cmd = gen.run["async"].cmd
        /\ gen.run["sync"].outcome.class = gen.run["async"].outcome.class
        /\ gen.run["sync"].outcome.class = "error" =>
              /\ gen.run["sync"].outcome.what = gen.run["async"].outcome.what
              /\ gen.run["sync"].outcome.kind = gen.run["async"].outcome.kind

(***************************************************************************)
(* LlamaService.__init__: the resolution of the executable and the check   *)
(* of the model file.  A file name is the pair <<prefix, rest>> with the   *)
(* prefix "llama-" or "", a path is the sequence of its names, and the     *)
(* file system gives every path its kind: "absent", "file" (a regular file *)
(* that may not be executed), "exec" (an executable regular file), "dir".  *)
(***************************************************************************)
Name(s) == <<"", s>>

LlamaName(s) == <<"llama-", s>>

\* name.startswith("llama-")
startswith_llama(name) == name[1] = "llama-"

\* os.path.join(dir_path, name)
join(dir_path, name) == Append(dir_path, name)

\* os.path.dirname(path)
dirname(path) == SubSeq(path, 1, Len(path) - 1)

\* llama_service.py:31, the well-known file names
WellKnownNames ==
    <<LlamaName("cli"), LlamaName("bin"), LlamaName("simple"), Name("main"), Name("llama")>>

BinDir == <<Name("app"), Name("llama.cpp"), Name("build"), Name("bin")>>

\* llama_service.py:13-19
DEFAULT_CANDIDATES == [i \in DOMAIN WellKnownNames |-> join(BinDir, WellKnownNames[i])]

\* settings.LLAMA_CPP_PATH, settings.MODEL_PATH
ConfiguredPath == <<Name("opt"), Name("llama.cpp")>>

ModelPath == <<Name("models"), Name("model.gguf")>>

PathDirs == <<<<Name("usr"), Name("local"), Name("bin")>>, <<Name("usr"), Name("bin")>> >>

\* the names a directory listing can show, in the order of the listing
ListedNames ==
    <<LlamaName("bench"), LlamaName("cli"), LlamaName("run"), LlamaName("server"),
      LlamaName("bin"), Name("main")>>

\* the files whose kind varies
VaryingFiles ==
    {join(ConfiguredPath, LlamaName("cli")), join(ConfiguredPath, LlamaName("server")),
     join(BinDir, LlamaName("bin")), join(BinDir, Name("main")),
     join(dirname(ConfiguredPath), Name("main")),
     join(dirname(ConfiguredPath), LlamaName("run")),
     join(dirname(ConfiguredPath), LlamaName("bench")),
     join(PathDirs[1], LlamaName("bench")), join(PathDirs[2], LlamaName("server"))}

FixedDirs == {dirname(ConfiguredPath), BinDir, PathDirs[1], PathDirs[2]}

KindOf(fs, path) ==
    IF path \in DOMAIN fs THEN fs[path]
    ELSE IF path \in FixedDirs THEN "dir" ELSE "absent"

isdir(fs, path) == KindOf(fs, path) = "dir"

isfile(fs, path) == KindOf(fs, path) \in {"file", "exec"}

\* llama_service.py:22-23
is_executable(fs, path) == isfile(fs, path) /\ KindOf(fs, path) = "exec"

\* os.listdir(d): the names in d, in the order the system lists them
RECURSIVE Listing(_, _, _)
Listing(fs, d, names) ==
    IF names = << >> THEN << >>
    ELSE (IF KindOf(fs, join(d, Head(names))) # "absent" THEN <<Head(names)>> ELSE << >>)
            \o Listing(fs, d, Tail(names))

Reversed(q) == [i \in DOMAIN q |-> q[Len(q) + 1 - i]]

listdir(fs, d, backwards) ==
    Listing(fs, d, IF backwards THEN Reversed(ListedNames) ELSE ListedNames)

RECURSIVE ExecutablesAmong(_, _, _)
ExecutablesAmong(fs, d, names) ==
    IF names = << >> THEN << >>
    ELSE (IF is_executable(fs, join(d, Head(names)))
          THEN <<join(d, Head(names))>> ELSE << >>)
            \o ExecutablesAmong(fs, d, Tail(names))

PrefixNamed(names) == SelectSeq(names, startswith_llama)

\* llama_service.py:26-45
candidate_bins_from_dir(fs, dir_path, backwards) ==
    IF ~isdir(fs, dir_path)
    THEN << >>
    ELSE ExecutablesAmong(fs, dir_path, WellKnownNames)
            \o ExecutablesAmong(fs, dir_path, PrefixNamed(listdir(fs, dir_path, backwards)))

\* llama_service.py:48-59; a directory of PATH that cannot be listed is skipped
RECURSIVE search_path_for_llama_bins(_, _, _)
search_path_for_llama_bins(fs, path_env, backwards) ==
    IF path_env = << >> THEN << >>
    ELSE (IF isdir(fs, Head(path_env))
          THEN ExecutablesAmong(fs, Head(path_env),
                                PrefixNamed(listdir(fs, Head(path_env), backwards)))
          ELSE << >>)
            \o search_path_for_llama_bins(fs, Tail(path_env), backwards)

None == << >>

FirstOr(q, otherwise) == IF q # << >> THEN Head(q) ELSE otherwise

RECURSIVE DefaultExecutables(_, _)
DefaultExecutables(fs, paths) ==
    IF paths = << >> THEN << >>
    ELSE (IF is_executable(fs, Head(paths)) THEN <<Head(paths)>> ELSE << >>)
            \o DefaultExecutables(fs, Tail(paths))

\* variant: the well-known absolute paths are tried first
autodetect_bin_defaults_first(fs, configured, path_env, backwards) ==
    FirstOr(DefaultExecutables(fs, DEFAULT_CANDIDATES),
      FirstOr(candidate_bins_from_dir(fs, configured, backwards),
        FirstOr(candidate_bins_from_dir(fs, dirname(configured), backwards),
          FirstOr(search_path_for_llama_bins(fs, path_env, backwards), None))))

\* llama_service.py:89-109
autodetect_bin(fs, configured, path_env, backwards) ==
    FirstOr(candidate_bins_from_dir(fs, configured, backwards),
      FirstOr(DefaultExecutables(fs, DEFAULT_CANDIDATES),
        FirstOr(candidate_bins_from_dir(fs, dirname(configured), backwards),
          FirstOr(search_path_for_llama_bins(fs, path_env, backwards), None))))

\* llama_service.py:111-130: the service object, or the error raised
validate_paths(fs, configured, model, path_env, backwards) ==
    LET cand == IF is_executable(fs, configured)
                THEN configured
                ELSE autodetect_bin(fs, configured, path_env, backwards) IN
    IF cand = None
    THEN [ok |-> FALSE, error |-> Raised("RuntimeError"), warned |-> FALSE]
    ELSE IF ~isfile(fs, model)
         THEN [ok |-> FALSE, error |-> Raised("RuntimeError"),
               warned |-> cand # configured]
         ELSE [ok |-> TRUE, llama_cpp |-> cand, model_path |-> model,
               warned |-> cand # configured]

TwoKinds == {"absent", "exec"}

ThreeKinds == {"absent", "file", "exec"}

\* the files that may also be there without the right to execute
ThreeKindFiles == {join(ConfiguredPath, LlamaName("cli")), join(PathDirs[2], LlamaName("server"))}

\* the file systems: every varying file is there or not; files below the
\* configured path exist only when it is a directory
FileSystems ==
    {fs \in {(ConfiguredPath :> c) @@ (ModelPath :> m) @@ t @@ u :
                c \in {"absent", "file", "exec", "dir"},
                m \in {"absent", "file", "dir"},
                t \in [ThreeKindFiles -> ThreeKinds],
                u \in [VaryingFiles \ ThreeKindFiles -> TwoKinds]} :
        \A f \in VaryingFiles :
            (dirname(f) = ConfiguredPath /\ fs[ConfiguredPath] # "dir") => fs[f] = "absent"}

InitLlama ==
    /\ \E fs \in FileSystems, backwards \in BOOLEAN, path_env \in {<< >>, PathDirs} :
        llama = [pc |-> "constructing", fs |-> fs, backwards |-> backwards,
                 path_env |-> path_env, service |-> None, error |-> NoError,
                 warned |-> FALSE]
    /\ coordinator_apart /\ search_apart /\ fusion_apart /\ gen_apart /\ http_apart

\* llama_service.py:71-83: LlamaService() with the configured paths
Construct ==
    /\ llama.pc = "constructing"
    /\ LET v == validate_paths(llama.fs, ConfiguredPath, ModelPath,
                               llama.path_env, llama.backwards) IN
       llama' = [llama EXCEPT
            !.pc = IF v.ok THEN "constructed" ELSE "failed",
            !.service = IF v.ok
                        THEN [llama_cpp |-> v.llama_cpp, model_path |-> v.model_path]
                        ELSE None,
            !.error = IF v.ok THEN NoError ELSE v.error,
            !.warned = v.warned]
    /\ UNCHANGED beside_llama

NextLlama == Construct

SpecLlama == InitLlama /\ [][NextLlama]_vars

Executable(path) == llama.fs[path] = "exec"

\* what each strategy finds
InDir(d, names) == {join(d, n) : n \in names} \cap {f \in DOMAIN llama.fs : Executable(f)}

C18_Strategies ==
    LET configured_is_dir == llama.fs[ConfiguredPath] = "dir"
        well_known == {LlamaName("cli"), LlamaName("bin"), LlamaName("simple"),
                       Name("main"), Name("llama")}
        prefixed == {LlamaName("bench"), LlamaName("cli"), LlamaName("run"),
                     LlamaName("server"), LlamaName("bin"), LlamaName("simple")} IN
    << IF configured_is_dir THEN InDir(ConfiguredPath, well_known) ELSE {},
       IF configured_is_dir THEN InDir(ConfiguredPath, prefixed) ELSE {},
       InDir(BinDir, well_known),
       InDir(dirname(ConfiguredPath), well_known \cup prefixed),
       UNION {InDir(llama.path_env[i], prefixed) : i \in DOMAIN llama.path_env} >>

C18_FirstMatches ==
    LET s == C18_Strategies IN
    IF \E i \in DOMAIN s : s[i] # {}
    THEN s[CHOOSE i \in DOMAIN s : s[i] # {} /\ \A j \in 1..(i - 1) : s[j] = {}]
    ELSE {}

\* C18: after construction, an executable configured path is kept; otherwise
\* the executable adopted is a match of the first strategy, in the order
\* (a) well-known names in the configured directory, (b) prefix-named
\* executables there, (c) well-known absolute paths, (d) the parent
\* directory, (e) the PATH directories, that has a match; when there is no
\* match, or the model path is not a regular file, construction has failed
\* and there is no service object.
C18_Resolution ==
    llama.pc # "constructing" =>
        IF llama.fs[ModelPath] # "file"
              \/ (~Executable(ConfiguredPath) /\ C18_FirstMatches = {})
        THEN llama.pc = "failed" /\ llama.service = None
        ELSE /\ llama.pc = "constructed"
             /\ llama.service.model_path = ModelPath
             /\ IF Executable(ConfiguredPath)
                THEN llama.service.llama_cpp = ConfiguredPath
                ELSE llama.service.llama_cpp \in C18_FirstMatches

C18_Witness ==
    /\ llama.pc = "constructed"
    /\ llama.fs[ConfiguredPath] = "dir"
    /\ llama.fs[join(ConfiguredPath, LlamaName("cli"))] = "file"
    /\ llama.service.llama_cpp = join(ConfiguredPath, LlamaName("server"))
    /\ Executable(join(BinDir, Name("main")))

(***************************************************************************)
(* POST /app-analysis: the dependency get_analysis_domain and the handler  *)
(* analyze_app.  What perform_analysis does is in Spec; here a call of it  *)
(* is one of its outcomes.                                                 *)
(***************************************************************************)
MaxRequests == 3

Requests == 1..MaxRequests

\* analysis_domain.py:28-38, the parameters of AnalysisDomain.__init__
InitParameters == {"retriever", "generator", "cache"}

\* app_analysis.py:55, the arguments of AnalysisDomain(retriever=..., generator=...)
InitArguments == {"retriever", "generator"}

\* a call with a required parameter missing raises TypeError
AnalysisDomainNew(arguments) ==
    IF InitParameters \subseteq arguments
    THEN [ok |-> TRUE, built_from |-> arguments, error |-> NoError]
    ELSE [ok |-> FALSE, built_from |-> {}, error |-> Raised("TypeError")]

\* app_analysis.py:43-55
get_analysis_domain == AnalysisDomainNew(InitArguments)

\* the ways a call of perform_analysis ends
PerformOutcomes ==
    {[ok |-> TRUE, report |-> FullMembers(sev), error |-> NoError] : sev \in {"High", "Low"}}
        \cup {[ok |-> FALSE, report |-> {}, error |-> Raised(t)] :
                t \in {"ConnectionError", "SearchError", "RuntimeError", "ValidationError"}}

NotCalled == [ok |-> FALSE, report |-> {}, error |-> NoError]

NoResponse == [status |-> 0, body |-> {}, detail |-> << >>]

\* app_analysis.py:86, the report as the response
Ok(report) == [status |-> 200, body |-> report, detail |-> << >>]

\* app_analysis.py:91-94
HTTPException500(e) ==
    [status |-> 500, body |-> {}, detail |-> <<"Falha ao gerar análise: ", e>>]

\* the framework's answer to an exception that no handler caught
InternalServerError == [status |-> 500, body |-> {}, detail |-> <<"Internal Server Error">>]

IdleRequest ==
    [pc |-> "idle", req |-> NoRequest, built_from |-> {}, calls |-> 0,
     outcome |-> NotCalled, response |-> NoResponse]

InitHttp ==
    /\ http = [h \in Requests |-> IdleRequest]
    /\ coordinator_apart /\ search_apart /\ fusion_apart /\ gen_apart /\ llama_apart

\* app_analysis.py:66-68: a request arrives and its body validates
Receive(h, r) ==
    /\ http[h].pc = "idle"
    /\ http' = [http EXCEPT ![h] = [@ EXCEPT !.pc = "received", !.req = r]]
    /\ UNCHANGED beside_http

\* app_analysis.py:75 and 80-94: the dependency is resolved, then the
\* handler awaits domain.perform_analysis(req), which ends as `o`, and
\* returns the report or raises HTTPException; an exception of the
\* dependency is raised before the handler is entered
analyze_app(h, o) ==
    /\ http[h].pc = "received"
    /\ LET domain == get_analysis_domain IN
       IF ~domain.ok
       THEN http' = [http EXCEPT ![h] =
                [@ EXCEPT !.pc = "responded", !.response = InternalServerError]]
       ELSE http' = [http EXCEPT ![h] =
                [@ EXCEPT !.pc = "responded",
                          !.built_from = domain.built_from,
                          !.calls = 1,
                          !.outcome = o,
                          !.response = IF o.ok THEN Ok(o.report)
                                       ELSE HTTPException500(o.error)]]
    /\ UNCHANGED beside_http

NextHttp ==
    \/ \E h \in Requests, r \in AndroguardAnalysis : Receive(h, r)
    \/ \E h \in Requests, o \in PerformOutcomes : analyze_app(h, o)

SpecHttp == InitHttp /\ [][NextHttp]_vars

\* C19: every answered request was delegated to one perform_analysis call
\* on a coordinator built from retriever, generator and cache; the answer is
\* the report that call returned, or the status 500 whose message embeds
\* the text of the error it raised.
C19_Delegates ==
    \A h \in Requests :
        http[h].pc = "responded" =>
            /\ http[h].built_from = {"retriever", "generator", "cache"}
            /\ http[h].calls = 1
            /\ http[h].outcome \in PerformOutcomes
            /\ http[h].outcome.ok =>
                  http[h].response.status = 200
                      /\ http[h].response.body = http[h].outcome.report
            /\ ~http[h].outcome.ok =>
                  http[h].response.status = 500
                      /\ http[h].response.detail
                            = <<"Falha ao gerar análise: ", http[h].outcome.error>>

(***************************************************************************)
(* perform_analysis: failures of the collaborators.                        *)
(***************************************************************************)
C20_ReadFailed == <<"cache.get", "cache.get.raise">>

C20_SearchFailed == <<"cache.get", "cache.get.ret", "search_vector", "search_vector.raise">>

C20_GenerateFailed ==
    <<"cache.get", "cache.get.ret", "search_vector", "search_vector.ret",
      "generate", "generate.raise">>

C20_Failed(c, trace, type) ==
    /\ call[c].pc = "failed"
    /\ call[c].trace = trace
    /\ call[c].error = Raised(type)
    /\ call[c].report = {}
    /\ \A k \in Keys : cache[k].present => cache[k].by # c

C20_Traces ==
    \A c \in Calls :
        /\ Has(c, "cache.get.raise") => C20_Failed(c, C20_ReadFailed, "ConnectionError")
        /\ Has(c, "search_vector.raise") => C20_Failed(c, C20_SearchFailed, "SearchError")
        /\ Has(c, "generate.raise") => C20_Failed(c, C20_GenerateFailed, "RuntimeError")

C20_CacheKept ==
    [][\A c \in Calls :
          (call[c].pc \in {"await_get", "await_search", "await_generate"}
                /\ call'[c].pc = "failed")
             => cache' = cache]_vars

\* C20: a call whose cache read, retrieval or generation fails ends failed
\* with that error at once: its trace stops at the failed call, so nothing
\* after it was called and no collaborator was called twice, it has written
\* nothing to the cache, and the failing step leaves the cache as it was.
C20_FailFast == []C20_Traces /\ C20_CacheKept

C20_Witness ==
    \E c1, c2 \in Calls :
        /\ c1 # c2
        /\ call[c2].trace = C20_GenerateFailed
        /\ call[c1].pc = "returned" /\ call[c1].trace = MissTrace
        /\ KeyOf(c1) = KeyOf(c2)
        /\ cache[KeyOf(c2)].present /\ cache[KeyOf(c2)].by = c1

====
